---- MODULE Spec2Model ----
(***************************************************************************)
(* Budget tracker API (backend/server.py): the categories, transactions,   *)
(* budgets and settings collections, the request handlers that read and    *)
(* write them, and the overview and analytics computations.                *)
(*                                                                         *)
(* A writing handler is a sequence of steps, one per awaited store         *)
(* operation; the store executes each operation atomically.  pc[p] is the  *)
(* position of request p, req[p] its request, loc[p] its local variables   *)
(* and resp[p] the response it sent.  The two reading handlers take their  *)
(* store reads together.                                                   *)
(*                                                                         *)
(* A uuid4 is the next value of a counter (never issued twice).  Amounts   *)
(* are integers and percentages exact fractions: the rounding of floats    *)
(* is not modelled.  A document keeps the fields some handler reads:       *)
(* created_at, updated_at and description are left out.  An ISO date       *)
(* string is the sequence of its character codes, ordered as the store     *)
(* orders strings.                                                         *)
(***************************************************************************)
EXTENDS Integers, Sequences, FiniteSets, TLC

VARIABLES categories, transactions, budgets, settings, today, nextId, pc, req,
          loc, resp

vars == <<categories, transactions, budgets, settings, today, nextId, pc, req,
          loc, resp>>

(* ------------------------------ bounds --------------------------------- *)

\* number of documents (uuid4 values) ever created
MaxIds == 3
\* number of midnights the server clock passes
MaxTicks == 1
\* the server clock at start-up: Saturday 30 November 2024
FirstDay == [year |-> 2024, month |-> 11, day |-> 30]

Procs == {1, 2}

(* ------------------------- enums and defaults -------------------------- *)

income == "ingreso"
expense == "gasto"
TransactionType == {income, expense}

weekly == "semanal"
monthly == "mensual"
yearly == "anual"
BudgetPeriod == {weekly, monthly, yearly}

DefaultColor == "#3B82F6"

(* --------------------------- datetime.date ----------------------------- *)

Date(y, m, d) == [year |-> y, month |-> m, day |-> d]

IsLeap(y) == (y % 4 = 0) /\ ((y % 100 # 0) \/ (y % 400 = 0))

DaysBeforeMonthTable == <<0, 31, 59, 90, 120, 151, 181, 212, 243, 273, 304, 334>>

DaysBeforeMonth(y, m) ==
    DaysBeforeMonthTable[m] + (IF m > 2 /\ IsLeap(y) THEN 1 ELSE 0)

DaysInMonth(y, m) ==
    IF m = 2 THEN (IF IsLeap(y) THEN 29 ELSE 28)
    ELSE IF m \in {4, 6, 9, 11} THEN 30 ELSE 31

DaysBeforeYear(y) ==
    (y - 1) * 365 + ((y - 1) \div 4) - ((y - 1) \div 100) + ((y - 1) \div 400)

ToOrdinal(d) == DaysBeforeYear(d.year) + DaysBeforeMonth(d.year, d.month) + d.day

FromOrdinal(ord) ==
    LET n0   == ord - 1
        n400 == n0 \div 146097
        r400 == n0 % 146097
        n100 == r400 \div 36524
        r100 == r400 % 36524
        n4   == r100 \div 1461
        r4   == r100 % 1461
        n1   == r4 \div 365
        n    == r4 % 365
        year == n400 * 400 + 1 + n100 * 100 + n4 * 4 + n1
    IN  IF n1 = 4 \/ n100 = 4
        THEN Date(year - 1, 12, 31)
        ELSE LET leap  == (n1 = 3) /\ ((n4 # 24) \/ (n100 = 3))
                 adj(m) == IF m > 2 /\ leap THEN 1 ELSE 0
                 m0    == (n + 50) \div 32
                 p0    == DaysBeforeMonthTable[m0] + adj(m0)
                 month == IF p0 > n THEN m0 - 1 ELSE m0
                 prec  == DaysBeforeMonthTable[month] + adj(month)
             IN  Date(year, month, n - prec + 1)

\* date.weekday(): Monday is 0
Weekday(d) == (ToOrdinal(d) + 6) % 7

\* date + timedelta(days=n)
AddDays(d, n) == FromOrdinal(ToOrdinal(d) + n)

\* date.isoformat() as the sequence of the ASCII codes of "YYYY-MM-DD"
Digit(k) == 48 + k
Hyphen == Digit(0) - 3

IsoFormat(d) ==
    << Digit((d.year \div 1000) % 10), Digit((d.year \div 100) % 10),
       Digit((d.year \div 10) % 10), Digit(d.year % 10), Hyphen,
       Digit(d.month \div 10), Digit(d.month % 10), Hyphen,
       Digit(d.day \div 10), Digit(d.day % 10) >>

\* the store's string order: code point by code point, a proper prefix first
StrLess(a, b) ==
    \E i \in 1..Len(b) :
        /\ \A j \in 1..(i - 1) : j <= Len(a) /\ a[j] = b[j]
        /\ i - 1 <= Len(a)
        /\ (i > Len(a) \/ a[i] < b[i])

StrGte(a, b) == ~StrLess(a, b)
StrLte(a, b) == ~StrLess(b, a)

\* date.fromisoformat / pydantic's parsing of "YYYY-MM-DD"
Num(c) == c - 48

FromIsoFormat(s) ==
    Date(Num(s[1]) * 1000 + Num(s[2]) * 100 + Num(s[3]) * 10 + Num(s[4]),
         Num(s[6]) * 10 + Num(s[7]),
         Num(s[9]) * 10 + Num(s[10]))

(* ------------------------- the document store -------------------------- *)

\* a cursor's to_list(length)
ToListLimit == 1000

ToList(docs, length) ==
    IF Len(docs) <= length THEN docs ELSE SubSeq(docs, 1, length)

\* find_one: the first matching document in natural order, <<>> for None
First(docs) == IF docs = <<>> THEN <<>> ELSE <<Head(docs)>>

IdQuery(doc, id) == doc.id = id

FindOneById(docs, id) ==
    First(SelectSeq(docs, LAMBDA doc : IdQuery(doc, id)))

\* variant: find_one with no filter
FindAnyCategory(cats, category_id) == First(cats)

\* db.categories.find_one({"id": category_id})
FindCategory(cats, category_id) == FindOneById(cats, category_id)

\* variant: delete_one with no filter
DeleteFirstDocument(docs, id) == IF docs = <<>> THEN docs ELSE Tail(docs)

\* delete_one({"id": id}): removes the first matching document
DeleteOne(docs, id) ==
    IF FindOneById(docs, id) = <<>> THEN docs
    ELSE LET i == CHOOSE k \in 1..Len(docs) :
                     /\ IdQuery(docs[k], id)
                     /\ \A j \in 1..(k - 1) : ~IdQuery(docs[j], id)
         IN  SubSeq(docs, 1, i - 1) \o SubSeq(docs, i + 1, Len(docs))

DeletedCount(docs, id) == Len(docs) - Len(DeleteOne(docs, id))

\* update_one({"id": id}, {"$set": {"amount": amount}}): the first match only
UpdateOneAmount(docs, id, amount) ==
    IF FindOneById(docs, id) = <<>> THEN docs
    ELSE LET i == CHOOSE k \in 1..Len(docs) :
                     /\ IdQuery(docs[k], id)
                     /\ \A j \in 1..(k - 1) : ~IdQuery(docs[j], id)
         IN  [docs EXCEPT ![i] = [docs[i] EXCEPT !.amount = amount]]

Ids(docs) == {docs[i].id : i \in 1..Len(docs)}

(* --------------------------- request inputs ---------------------------- *)

IdInputs == 1..MaxIds

CategoryInputs ==
    { [name |-> "Food", color |-> "#FF6B6B", type |-> expense] }

\* dated the Sunday that ends the first week (and starts December), 8 days
\* before the first day, and after the end of the year
TransactionInputs ==
    { [type |-> expense, amount |-> 10, date |-> Date(2024, 12, 1)],
      [type |-> income, amount |-> 10, date |-> Date(2024, 12, 1)],
      [type |-> expense, amount |-> 5, date |-> Date(2024, 11, 22)],
      [type |-> expense, amount |-> -5, date |-> Date(2025, 1, 1)] }

BudgetAmounts == {-10, 0, 10}

\* the budget requests drawn when handlers interleave
ConcurrentAmounts == {0, 10}
ConcurrentPeriods == {weekly, monthly}

AnalyticsPeriods == {weekly, monthly, yearly}

\* the values of date.today() the window is resolved for: every day of a year
\* before a leap century year, that year, a leap year, the year after it and
\* a century year that is not leap
WindowYears == {1999, 2000, 2024, 2025, 2100}

WindowDays ==
    UNION { UNION { {Date(y, m, d) : d \in 1..DaysInMonth(y, m)} : m \in 1..12 }
            : y \in WindowYears }

(* ------------------------------ responses ------------------------------ *)

NoResp == [status |-> 0]
Ok(body) == [status |-> 200, body |-> body]
NotFound == [status |-> 404]
ServerError == [status |-> 500]

NoLoc == [existing_budget |-> <<>>, category |-> <<>>, settings |-> <<>>]

Finished(p) == pc[p] = "done"
AtEntry(p) == pc[p] \in {"idle", "done"}

\* handlers that have passed the point after which they insert a document
Inserting(p) ==
    pc[p] \in {"ct_insert", "cb_category", "cb_insert", "gs_insert", "us_insert"}

CanCreate(p) ==
    nextId + Cardinality({q \in Procs \ {p} : Inserting(q)}) <= MaxIds

Init ==
    /\ categories = <<>>
    /\ transactions = <<>>
    /\ budgets = <<>>
    /\ settings = <<>>
    /\ today = FirstDay
    /\ nextId = 1
    /\ pc = [p \in Procs |-> "idle"]
    /\ req = [p \in Procs |-> [op |-> "none"]]
    /\ loc = [p \in Procs |-> NoLoc]
    /\ resp = [p \in Procs |-> NoResp]

\* the server clock passes midnight
Tick ==
    /\ ToOrdinal(today) - ToOrdinal(FirstDay) < MaxTicks
    /\ today' = AddDays(today, 1)
    /\ UNCHANGED <<categories, transactions, budgets, settings, nextId, pc, req,
                   loc, resp>>

Complete(p, request, response) ==
    /\ pc' = [pc EXCEPT ![p] = "done"]
    /\ req' = [req EXCEPT ![p] = request]
    /\ loc' = [loc EXCEPT ![p] = NoLoc]
    /\ resp' = [resp EXCEPT ![p] = response]

(* ------------------------------ categories ----------------------------- *)

create_category(p) ==
    /\ AtEntry(p)
    /\ CanCreate(p)
    /\ \E category \in CategoryInputs :
         LET category_obj == [id |-> nextId, name |-> category.name,
                              color |-> category.color, type |-> category.type]
         IN  /\ categories' = Append(categories, category_obj)
             /\ Complete(p, [op |-> "create_category", category |-> category],
                         Ok(category_obj))
    /\ nextId' = nextId + 1
    /\ UNCHANGED <<transactions, budgets, today, settings>>

\* variant: the delete cascades to the documents naming the category
delete_category_cascade(p) ==
    /\ AtEntry(p)
    /\ \E category_id \in IdInputs :
         /\ categories' = DeleteOne(categories, category_id)
         /\ transactions' = SelectSeq(transactions, LAMBDA tx : tx.category_id # category_id)
         /\ budgets' = SelectSeq(budgets, LAMBDA doc : doc.category_id # category_id)
         /\ Complete(p, [op |-> "delete_category", id |-> category_id],
                     IF DeletedCount(categories, category_id) = 0
                     THEN NotFound ELSE Ok("Categoria eliminada"))
    /\ UNCHANGED <<today, nextId, settings>>

delete_category(p) ==
    /\ AtEntry(p)
    /\ \E category_id \in IdInputs :
         /\ categories' = DeleteOne(categories, category_id)
         /\ Complete(p, [op |-> "delete_category", id |-> category_id],
                     IF DeletedCount(categories, category_id) = 0
                     THEN NotFound ELSE Ok("Categoria eliminada"))
    /\ UNCHANGED <<transactions, budgets, today, nextId, settings>>

(* ----------------------------- transactions ---------------------------- *)

\* create_transaction up to its first await: the category lookup
ct_category(p) ==
    /\ AtEntry(p)
    /\ \E transaction \in TransactionInputs, category_id \in IdInputs :
         LET request  == [op |-> "create_transaction", type |-> transaction.type,
                          amount |-> transaction.amount, category_id |-> category_id,
                          date |-> transaction.date]
             category == FindCategory(categories, category_id)
         IN  IF category = <<>>
             THEN Complete(p, request, NotFound)
             ELSE /\ CanCreate(p)
                  /\ pc' = [pc EXCEPT ![p] = "ct_insert"]
                  /\ req' = [req EXCEPT ![p] = request]
                  /\ loc' = [loc EXCEPT ![p] = [NoLoc EXCEPT !.category = category]]
                  /\ resp' = [resp EXCEPT ![p] = NoResp]
    /\ UNCHANGED <<categories, transactions, budgets, today, nextId, settings>>

\* the Transaction built from the request: the date goes through isoformat and
\* back through the model's date parsing
TransactionObj(id, request, category) ==
    [id |-> id, type |-> request.type, amount |-> request.amount,
     category_id |-> request.category_id, category_name |-> category.name,
     date |-> FromIsoFormat(IsoFormat(request.date))]

\* the document written: the object's fields with the date as an ISO string
TransactionDoc(obj) == [obj EXCEPT !.date = IsoFormat(obj.date)]

ct_insert(p) ==
    /\ pc[p] = "ct_insert"
    /\ LET transaction_obj == TransactionObj(nextId, req[p], loc[p].category[1])
       IN  /\ transactions' = Append(transactions, TransactionDoc(transaction_obj))
           /\ Complete(p, req[p], Ok(transaction_obj))
    /\ nextId' = nextId + 1
    /\ UNCHANGED <<categories, budgets, today, settings>>

delete_transaction(p) ==
    /\ AtEntry(p)
    /\ \E transaction_id \in IdInputs :
         /\ transactions' = DeleteOne(transactions, transaction_id)
         /\ Complete(p, [op |-> "delete_transaction", id |-> transaction_id],
                     IF DeletedCount(transactions, transaction_id) = 0
                     THEN NotFound ELSE Ok("Transaccion eliminada"))
    /\ UNCHANGED <<categories, budgets, today, nextId, settings>>

(* ------------------------------- budgets ------------------------------- *)

\* variant: the filter without the period
BudgetQueryNoPeriod(doc, category_id, period) ==
    doc.category_id = category_id

BudgetQuery(doc, category_id, period) ==
    doc.category_id = category_id /\ doc.period = period

FindOneBudget(docs, category_id, period) ==
    First(SelectSeq(docs, LAMBDA doc : BudgetQuery(doc, category_id, period)))

\* create_budget up to its first await: the lookup of a budget for the pair
cb_find(p, amounts, periods) ==
    /\ AtEntry(p)
    /\ \E category_id \in IdInputs, amount \in amounts, period \in periods :
         LET request == [op |-> "create_budget", category_id |-> category_id,
                         amount |-> amount, period |-> period]
             existing_budget == FindOneBudget(budgets, category_id, period)
         IN  /\ existing_budget = <<>> => CanCreate(p)
             /\ pc' = [pc EXCEPT ![p] = IF existing_budget # <<>>
                                        THEN "cb_update" ELSE "cb_category"]
             /\ req' = [req EXCEPT ![p] = request]
             /\ loc' = [loc EXCEPT ![p] =
                           [NoLoc EXCEPT !.existing_budget = existing_budget]]
             /\ resp' = [resp EXCEPT ![p] = NoResp]
    /\ UNCHANGED <<categories, transactions, budgets, today, nextId, settings>>

cb_update(p) ==
    /\ pc[p] = "cb_update"
    /\ budgets' = UpdateOneAmount(budgets, loc[p].existing_budget[1].id, req[p].amount)
    /\ pc' = [pc EXCEPT ![p] = "cb_refetch"]
    /\ UNCHANGED <<categories, transactions, today, nextId, req, loc, resp, settings>>

\* Budget(**updated_budget): a TypeError, so a 500, when the lookup gave None
cb_refetch(p) ==
    /\ pc[p] = "cb_refetch"
    /\ LET updated_budget == FindOneById(budgets, loc[p].existing_budget[1].id)
       IN  Complete(p, req[p], IF updated_budget = <<>> THEN ServerError
                               ELSE Ok(updated_budget[1]))
    /\ UNCHANGED <<categories, transactions, budgets, today, nextId, settings>>

cb_category(p) ==
    /\ pc[p] = "cb_category"
    /\ LET category == FindCategory(categories, req[p].category_id)
       IN  IF category = <<>>
           THEN Complete(p, req[p], NotFound)
           ELSE /\ pc' = [pc EXCEPT ![p] = "cb_insert"]
                /\ loc' = [loc EXCEPT ![p].category = category]
                /\ UNCHANGED <<req, resp>>
    /\ UNCHANGED <<categories, transactions, budgets, today, nextId, settings>>

BudgetObj(id, request, category) ==
    [id |-> id, category_id |-> request.category_id, category_name |-> category.name,
     amount |-> request.amount, period |-> request.period]

\* variant: the insert looks the pair up again and updates what it finds
cb_insert_if_absent(p) ==
    /\ pc[p] = "cb_insert"
    /\ LET budget_obj == BudgetObj(nextId, req[p], loc[p].category[1])
           found == FindOneBudget(budgets, req[p].category_id, req[p].period)
       IN  IF found = <<>>
           THEN /\ budgets' = Append(budgets, budget_obj)
                /\ Complete(p, req[p], Ok(budget_obj))
           ELSE /\ budgets' = UpdateOneAmount(budgets, found[1].id, req[p].amount)
                /\ Complete(p, req[p], Ok([found[1] EXCEPT !.amount = req[p].amount]))
    /\ nextId' = nextId + 1
    /\ UNCHANGED <<categories, transactions, today, settings>>

cb_insert(p) ==
    /\ pc[p] = "cb_insert"
    /\ LET budget_obj == BudgetObj(nextId, req[p], loc[p].category[1])
       IN  /\ budgets' = Append(budgets, budget_obj)
           /\ Complete(p, req[p], Ok(budget_obj))
    /\ nextId' = nextId + 1
    /\ UNCHANGED <<categories, transactions, today, settings>>

delete_budget(p) ==
    /\ AtEntry(p)
    /\ \E budget_id \in IdInputs :
         /\ budgets' = DeleteOne(budgets, budget_id)
         /\ Complete(p, [op |-> "delete_budget", id |-> budget_id],
                     IF DeletedCount(budgets, budget_id) = 0
                     THEN NotFound ELSE Ok("Presupuesto eliminado"))
    /\ UNCHANGED <<categories, transactions, today, nextId, settings>>

(* --------------------------- budget overview --------------------------- *)

RECURSIVE Gcd(_, _)
Gcd(a, b) == IF b = 0 THEN a ELSE Gcd(b, a % b)

Abs(x) == IF x < 0 THEN -x ELSE x

\* the quotient n / d (d # 0) as a fraction in lowest terms, den > 0
Quotient(n, d) ==
    LET g == Gcd(Abs(n), Abs(d))
        sgn == IF d < 0 THEN -1 ELSE 1
    IN  [num |-> sgn * (n \div g), den |-> sgn * (d \div g)]

Times(q, k) == Quotient(q.num * k, q.den)

Zero == Quotient(0, 1)

\* the current window of a period: start_date and end_date
WindowStart(day, period) ==
    IF period = weekly THEN AddDays(day, -Weekday(day))
    ELSE IF period = monthly THEN Date(day.year, day.month, 1)
    ELSE Date(day.year, 1, 1)

\* variant: December's end taken in today's year
WindowEndSameYear(day, period) ==
    IF period = weekly THEN AddDays(WindowStart(day, period), 6)
    ELSE IF period = monthly
         THEN IF day.month = 12
              THEN AddDays(Date(day.year, 1, 1), -1)
              ELSE AddDays(Date(day.year, day.month + 1, 1), -1)
    ELSE Date(day.year, 12, 31)

WindowEnd(day, period) ==
    IF period = weekly THEN AddDays(WindowStart(day, period), 6)
    ELSE IF period = monthly
         THEN IF day.month = 12
              THEN AddDays(Date(day.year + 1, 1, 1), -1)
              ELSE AddDays(Date(day.year, day.month + 1, 1), -1)
    ELSE Date(day.year, 12, 31)

\* variant: the filter without $lte
SpentQueryNoEnd(tx, category_id, start_date, end_date) ==
    /\ tx.category_id = category_id
    /\ tx.type = "gasto"
    /\ StrGte(tx.date, IsoFormat(start_date))

SpentQuery(tx, category_id, start_date, end_date) ==
    /\ tx.category_id = category_id
    /\ tx.type = "gasto"
    /\ StrGte(tx.date, IsoFormat(start_date))
    /\ StrLte(tx.date, IsoFormat(end_date))

SpentTransactions(txs, category_id, start_date, end_date) ==
    ToList(SelectSeq(txs, LAMBDA tx : SpentQuery(tx, category_id, start_date, end_date)),
           ToListLimit)

RECURSIVE SumAmount(_)
SumAmount(txs) == IF txs = <<>> THEN 0 ELSE Head(txs).amount + SumAmount(Tail(txs))

\* variant: the ratio, not times 100
PercentageUsedUnscaled(spent_amount, amount) ==
    IF amount > 0 THEN Quotient(spent_amount, amount) ELSE Zero

PercentageUsed(spent_amount, amount) ==
    IF amount > 0 THEN Times(Quotient(spent_amount, amount), 100) ELSE Zero

\* variant: >= for >
IsOverBudgetOrEqual(spent_amount, amount) == spent_amount >= amount

IsOverBudget(spent_amount, amount) == spent_amount > amount

CategoryColor(cats, category_id) ==
    LET category == FindCategory(cats, category_id)
    IN  IF category # <<>> THEN category[1].color ELSE DefaultColor

OverviewItem(budget, txs, cats, day, period) ==
    LET start_date   == WindowStart(day, period)
        end_date     == WindowEnd(day, period)
        spent_amount == SumAmount(SpentTransactions(txs, budget.category_id,
                                                    start_date, end_date))
    IN  [category_id |-> budget.category_id,
         category_name |-> budget.category_name,
         category_color |-> CategoryColor(cats, budget.category_id),
         period |-> budget.period,
         budget_amount |-> budget.amount,
         spent_amount |-> spent_amount,
         remaining_amount |-> budget.amount - spent_amount,
         percentage_used |-> PercentageUsed(spent_amount, budget.amount),
         is_over_budget |-> IsOverBudget(spent_amount, budget.amount)]

\* variant: find with no filter
PeriodQueryAny(doc, period) == TRUE

PeriodQuery(doc, period) == doc.period = period

BudgetsOfPeriod(docs, period) ==
    ToList(SelectSeq(docs, LAMBDA doc : PeriodQuery(doc, period)), ToListLimit)

Overview(docs, txs, cats, day, period) ==
    LET found == BudgetsOfPeriod(docs, period)
    IN  [i \in 1..Len(found) |-> OverviewItem(found[i], txs, cats, day, period)]

\* read-only: its store reads are taken together
get_budget_overview(p) ==
    /\ AtEntry(p)
    /\ \E period \in BudgetPeriod :
         Complete(p, [op |-> "get_budget_overview", period |-> period],
                  Ok(Overview(budgets, transactions, categories, today, period)))
    /\ UNCHANGED <<categories, transactions, budgets, today, nextId, settings>>

\* the date window of get_budget_overview alone: its locals start_date and
\* end_date for a budget of the period
resolve_window(p) ==
    /\ AtEntry(p)
    /\ \E period \in BudgetPeriod :
         Complete(p, [op |-> "resolve_window", period |-> period],
                  Ok([start_date |-> WindowStart(today, period),
                      end_date |-> WindowEnd(today, period)]))
    /\ UNCHANGED <<categories, transactions, budgets, today, nextId, settings>>

(* ------------------------- spending analytics -------------------------- *)

AnalyticsStart(day, period) ==
    IF period = "semanal" THEN AddDays(day, -Weekday(day))
    ELSE IF period = "mensual" THEN Date(day.year, day.month, 1)
    ELSE Date(day.year, 1, 1)

\* variant: $match with an upper bound of today
AnalyticsMatchUntilToday(tx, start_date) ==
    /\ tx.type = "gasto"
    /\ StrGte(tx.date, IsoFormat(start_date))
    /\ StrLte(tx.date, IsoFormat(today))

\* $match
AnalyticsMatch(tx, start_date) ==
    tx.type = "gasto" /\ StrGte(tx.date, IsoFormat(start_date))

\* $group: the _id of a transaction
GroupKey(tx) == [category_id |-> tx.category_id, category_name |-> tx.category_name]

GroupOf(txs, key) == SelectSeq(txs, LAMBDA tx : GroupKey(tx) = key)

\* the entry of one group after the colour is attached and _id is dropped
AnalyticsItem(txs, cats, key) ==
    [total_spent |-> SumAmount(GroupOf(txs, key)),
     transaction_count |-> Len(GroupOf(txs, key)),
     color |-> CategoryColor(cats, key.category_id),
     category_name |-> key.category_name,
     category_id |-> key.category_id]

\* $sort total_spent descending; the order of equal totals is the store's choice
SortedDescending(items) ==
    \A i, j \in 1..Len(items) : i < j => items[i].total_spent >= items[j].total_spent

SpendingResults(txs, cats, day, period) ==
    LET matched == SelectSeq(txs, LAMBDA tx : AnalyticsMatch(tx, AnalyticsStart(day, period)))
        keys    == {GroupKey(matched[i]) : i \in 1..Len(matched)}
        orders  == {o \in [1..Cardinality(keys) -> keys] :
                       \A i, j \in 1..Cardinality(keys) : i # j => o[i] # o[j]}
    IN  {r \in {ToList([i \in 1..Cardinality(keys) |-> AnalyticsItem(matched, cats, o[i])],
                       ToListLimit) : o \in orders} : SortedDescending(r)}

get_spending_by_category(p) ==
    /\ AtEntry(p)
    /\ \E period \in AnalyticsPeriods :
         \E result \in SpendingResults(transactions, categories, today, period) :
            Complete(p, [op |-> "get_spending_by_category", period |-> period],
                     Ok(result))
    /\ UNCHANGED <<categories, transactions, budgets, today, nextId, settings>>

(* ------------------------------- settings ------------------------------ *)

DefaultAppName == "Control de Presupuesto"

AppNameInputs == {"Mis Gastos", "Finanzas"}

\* Settings(app_name=...): the id is a fresh uuid4
SettingsObj(id, app_name) == [id |-> id, app_name |-> app_name]

\* db.settings.find_one(): the first document of the collection
FindOneSettings(docs) == First(docs)

\* update_one({"id": id}, {"$set": {"app_name": app_name, ...}})
UpdateOneAppName(docs, id, app_name) ==
    IF FindOneById(docs, id) = <<>> THEN docs
    ELSE LET i == CHOOSE k \in 1..Len(docs) :
                     /\ IdQuery(docs[k], id)
                     /\ \A j \in 1..(k - 1) : ~IdQuery(docs[j], id)
         IN  [docs EXCEPT ![i] = [docs[i] EXCEPT !.app_name = app_name]]

\* get_settings up to its first await: the lookup of the settings document
gs_find(p) ==
    /\ AtEntry(p)
    /\ LET request == [op |-> "get_settings"]
           found == FindOneSettings(settings)
       IN  IF found = <<>>
           THEN /\ CanCreate(p)
                /\ pc' = [pc EXCEPT ![p] = "gs_insert"]
                /\ req' = [req EXCEPT ![p] = request]
                /\ loc' = [loc EXCEPT ![p] = NoLoc]
                /\ resp' = [resp EXCEPT ![p] = NoResp]
           ELSE Complete(p, request, Ok(found[1]))
    /\ UNCHANGED <<categories, transactions, budgets, settings, today, nextId>>

gs_insert(p) ==
    /\ pc[p] = "gs_insert"
    /\ LET default_settings == SettingsObj(nextId, DefaultAppName)
       IN  /\ settings' = Append(settings, default_settings)
           /\ Complete(p, req[p], Ok(default_settings))
    /\ nextId' = nextId + 1
    /\ UNCHANGED <<categories, transactions, budgets, today>>

\* update_settings up to its first await
us_find(p) ==
    /\ AtEntry(p)
    /\ \E app_name \in AppNameInputs :
         LET request == [op |-> "update_settings", app_name |-> app_name]
             found == FindOneSettings(settings)
         IN  /\ found = <<>> => CanCreate(p)
             /\ pc' = [pc EXCEPT ![p] = IF found = <<>>
                                        THEN "us_insert" ELSE "us_update"]
             /\ req' = [req EXCEPT ![p] = request]
             /\ loc' = [loc EXCEPT ![p] = [NoLoc EXCEPT !.settings = found]]
             /\ resp' = [resp EXCEPT ![p] = NoResp]
    /\ UNCHANGED <<categories, transactions, budgets, settings, today, nextId>>

us_insert(p) ==
    /\ pc[p] = "us_insert"
    /\ LET new_settings == SettingsObj(nextId, req[p].app_name)
       IN  /\ settings' = Append(settings, new_settings)
           /\ Complete(p, req[p], Ok(new_settings))
    /\ nextId' = nextId + 1
    /\ UNCHANGED <<categories, transactions, budgets, today>>

us_update(p) ==
    /\ pc[p] = "us_update"
    /\ settings' = UpdateOneAppName(settings, loc[p].settings[1].id, req[p].app_name)
    /\ pc' = [pc EXCEPT ![p] = "us_refetch"]
    /\ UNCHANGED <<categories, transactions, budgets, today, nextId, req, loc, resp>>

\* Settings(**updated_settings): a TypeError, so a 500, when the lookup gave None
us_refetch(p) ==
    /\ pc[p] = "us_refetch"
    /\ LET updated_settings == FindOneById(settings, loc[p].settings[1].id)
       IN  Complete(p, req[p], IF updated_settings = <<>> THEN ServerError
                               ELSE Ok(updated_settings[1]))
    /\ UNCHANGED <<categories, transactions, budgets, settings, today, nextId>>

(* --------------------------- specifications ---------------------------- *)

\* requests handled concurrently: the steps of the handlers interleave
Handler(p) ==
    \/ create_category(p)
    \/ delete_category(p)
    \/ cb_find(p, ConcurrentAmounts, ConcurrentPeriods)
    \/ cb_update(p)
    \/ cb_refetch(p)
    \/ cb_category(p)
    \/ cb_insert(p)
    \/ delete_budget(p)

Next == \E p \in Procs : Handler(p)

Spec == Init /\ [][Next]_vars

\* create_budget requests handled one at a time, each interleaved with
\* concurrently handled delete_budget requests
NextUpsertDelete ==
    \/ create_category(1)
    \/ cb_find(1, ConcurrentAmounts, ConcurrentPeriods)
    \/ cb_update(1)
    \/ cb_refetch(1)
    \/ cb_category(1)
    \/ cb_insert(1)
    \/ delete_budget(2)

SpecUpsertDelete == Init /\ [][NextUpsertDelete]_vars

\* requests handled one at a time: the writes of the three collections
NextSeq ==
    \/ create_category(1)
    \/ delete_category(1)
    \/ cb_find(1, BudgetAmounts, BudgetPeriod)
    \/ cb_update(1)
    \/ cb_refetch(1)
    \/ cb_category(1)
    \/ cb_insert(1)
    \/ delete_budget(1)
    \/ ct_category(1)
    \/ ct_insert(1)
    \/ delete_transaction(1)

SpecSeq == Init /\ [][NextSeq]_vars

\* requests handled one at a time: the overview over the stored documents
NextOverview ==
    \/ Tick
    \/ create_category(1)
    \/ delete_category(1)
    \/ ct_category(1)
    \/ ct_insert(1)
    \/ cb_find(1, BudgetAmounts, BudgetPeriod)
    \/ cb_update(1)
    \/ cb_refetch(1)
    \/ cb_category(1)
    \/ cb_insert(1)
    \/ get_budget_overview(1)

SpecOverview == Init /\ [][NextOverview]_vars

\* requests handled one at a time: the analytics over the stored documents
NextAnalytics ==
    \/ Tick
    \/ create_category(1)
    \/ delete_category(1)
    \/ ct_category(1)
    \/ ct_insert(1)
    \/ delete_transaction(1)
    \/ get_spending_by_category(1)

SpecAnalytics == Init /\ [][NextAnalytics]_vars

\* settings requests handled concurrently
SettingsHandler(p) ==
    \/ gs_find(p)
    \/ gs_insert(p)
    \/ us_find(p)
    \/ us_insert(p)
    \/ us_update(p)
    \/ us_refetch(p)

NextSettings == \E p \in Procs : SettingsHandler(p)

SpecSettings == Init /\ [][NextSettings]_vars

\* the window resolved on any day: the server starts with the clock on any of
\* the days
InitWindow ==
    /\ categories = <<>>
    /\ transactions = <<>>
    /\ budgets = <<>>
    /\ settings = <<>>
    /\ today \in WindowDays
    /\ nextId = 1
    /\ pc = [p \in Procs |-> "idle"]
    /\ req = [p \in Procs |-> [op |-> "none"]]
    /\ loc = [p \in Procs |-> NoLoc]
    /\ resp = [p \in Procs |-> NoResp]

NextWindow == resolve_window(1)

SpecWindow == InitWindow /\ [][NextWindow]_vars

(* ------------------------------ properties ----------------------------- *)

\* process p sends the response of a request `op` in this step
Responds(p, op) ==
    /\ pc'[p] = "done"
    /\ req'[p].op = op
    /\ (pc[p] # "done" \/ req'[p] # req[p] \/ resp'[p] # resp[p])

\* process p accepts a request `op` in this step
Accepts(p, op) ==
    /\ AtEntry(p)
    /\ req'[p].op = op
    /\ (pc'[p] # pc[p] \/ req'[p] # req[p] \/ resp'[p] # resp[p])

PairIndexes(docs, category_id, period) ==
    {i \in 1..Len(docs) : docs[i].category_id = category_id /\ docs[i].period = period}

BudgetPairUnique ==
    \A category_id \in 1..MaxIds, period \in BudgetPeriod :
        Cardinality(PairIndexes(budgets, category_id, period)) <= 1

\* the steps of a create_budget call made while a Budget for the pair is stored
UpsertInPlace ==
    \A p \in Procs :
        /\ Accepts(p, "create_budget") =>
              LET found == PairIndexes(budgets, req'[p].category_id, req'[p].period)
              IN  /\ budgets' = budgets
                  /\ (found # {}) <=> (pc'[p] = "cb_update")
                  /\ found # {} => \E i \in found : loc'[p].existing_budget = <<budgets[i]>>
        /\ pc[p] = "cb_update" =>
              LET id == loc[p].existing_budget[1].id
              IN  /\ Len(budgets') = Len(budgets)
                  /\ \A i \in 1..Len(budgets) :
                        budgets'[i] = IF budgets[i].id = id
                                      THEN [budgets[i] EXCEPT !.amount = req[p].amount]
                                      ELSE budgets[i]
        /\ pc[p] = "cb_refetch" =>
              /\ budgets' = budgets
              /\ resp'[p].status = 200
              /\ resp'[p].body.id = loc[p].existing_budget[1].id
              /\ resp'[p].body.amount = req[p].amount
              /\ \E i \in 1..Len(budgets') : budgets'[i] = resp'[p].body

\* C1: with requests handled one at a time, create_budget for a pair that has
\* a stored Budget sets that Budget's amount, returns that same Budget and
\* inserts nothing, and no (category_id, period) pair ever has two Budgets.
C1_UpsertKeepsPairsUnique == []BudgetPairUnique /\ [][UpsertInPlace]_vars

\* a create_budget call has written the requested amount to the Budget it found
C1_Witness ==
    \E p \in Procs :
        /\ pc[p] = "cb_refetch"
        /\ loc[p].existing_budget[1].amount # req[p].amount
        /\ budgets = <<[loc[p].existing_budget[1] EXCEPT !.amount = req[p].amount]>>

\* C2: the insert of create_budget is unconditional: a call that read no
\* Budget for its pair inserts a new one whatever is stored by then, so two
\* interleaved calls for one pair leave two Budgets of that pair.
C2_InsertAfterStaleRead ==
    [][\A p \in Procs :
          pc[p] = "cb_insert" /\ pc'[p] = "done" =>
             /\ resp'[p].status = 200
             /\ budgets' = Append(budgets, resp'[p].body)
             /\ resp'[p].body.category_id = req[p].category_id
             /\ resp'[p].body.period = req[p].period
             /\ resp'[p].body.id \notin Ids(budgets)]_vars

\* both calls have answered 200 and two Budgets of one pair are stored
C2_Witness ==
    /\ \A p \in Procs :
          Finished(p) /\ req[p].op = "create_budget" /\ resp[p].status = 200
    /\ \E i, j \in 1..Len(budgets) :
          /\ i < j
          /\ budgets[i].category_id = budgets[j].category_id
          /\ budgets[i].period = budgets[j].period
          /\ {resp[p].body : p \in Procs} = {budgets[i], budgets[j]}

Creates == {"create_transaction", "create_budget"}

\* process p takes a step of the handler of a create request
CreateStep(p) ==
    /\ req'[p].op \in Creates
    /\ <<pc'[p], req'[p], loc'[p], resp'[p]>> # <<pc[p], req[p], loc[p], resp[p]>>

C3_Rejected(request) ==
    /\ request.op \in Creates
    /\ request.category_id \notin Ids(categories)

C3_RejectedAmended(request) ==
    /\ C3_Rejected(request)
    /\ request.op = "create_budget" =>
          PairIndexes(budgets, request.category_id, request.period) = {}

\* the statement as claimed: every create naming no stored Category is rejected
C3_Original ==
    /\ [](\A p \in Procs : Finished(p) /\ C3_Rejected(req[p]) => resp[p] = NotFound)
    /\ [][\A p \in Procs : CreateStep(p) /\ C3_Rejected(req'[p]) =>
             transactions' = transactions /\ budgets' = budgets]_vars

\* C3: with requests handled one at a time, create_transaction naming no
\* stored Category, and create_budget naming no stored Category for a pair that
\* has no stored Budget, answer NotFound and leave transactions and budgets
\* unchanged (create_budget for a pair that has a Budget updates it instead).
C3_MissingCategoryNotFound ==
    /\ [](\A p \in Procs : Finished(p) /\ C3_RejectedAmended(req[p]) => resp[p] = NotFound)
    /\ [][\A p \in Procs : CreateStep(p) /\ C3_RejectedAmended(req'[p]) =>
             transactions' = transactions /\ budgets' = budgets]_vars

\* create_budget was answered NotFound for a Category deleted before the call
C3_Witness ==
    \E p \in Procs :
        /\ Finished(p) /\ req[p].op = "create_budget" /\ resp[p] = NotFound
        /\ req[p].category_id < nextId
        /\ categories # <<>> /\ transactions # <<>>

RemovesOne(docs, after, id) ==
    /\ Len(after) = Len(docs) - 1
    /\ after = SelectSeq(docs, LAMBDA doc : doc.id # id)

C9_Delete(p, docs, after) ==
    IF req'[p].id \in Ids(docs)
    THEN resp'[p].status = 200 /\ RemovesOne(docs, after, req'[p].id)
    ELSE resp'[p] = NotFound /\ after = docs

\* C9: a delete of an id its collection does not hold answers NotFound and
\* changes nothing; a delete of a stored id answers 200 and removes exactly
\* that document, so the id is no longer stored for a second delete.
C9_DeleteExactlyOne ==
    [][\A p \in Procs :
          /\ Responds(p, "delete_category") =>
                /\ C9_Delete(p, categories, categories')
                /\ transactions' = transactions /\ budgets' = budgets
          /\ Responds(p, "delete_transaction") =>
                /\ C9_Delete(p, transactions, transactions')
                /\ categories' = categories /\ budgets' = budgets
          /\ Responds(p, "delete_budget") =>
                /\ C9_Delete(p, budgets, budgets')
                /\ categories' = categories /\ transactions' = transactions]_vars

\* delete_budget removed one of two stored Budgets
C9_Witness ==
    \E p \in Procs :
        /\ Finished(p) /\ req[p].op = "delete_budget" /\ resp[p].status = 200
        /\ Len(budgets) = 1
        /\ req[p].id \notin Ids(budgets)

\* C10: delete_category leaves every stored Transaction and Budget as it was,
\* those that name the deleted Category included.
C10_DeleteCategoryNoCascade ==
    [][\A p \in Procs :
          Responds(p, "delete_category") =>
             transactions' = transactions /\ budgets' = budgets]_vars

\* a Category was deleted while a Transaction and a Budget name it
C10_Witness ==
    \E p \in Procs :
        /\ Finished(p) /\ req[p].op = "delete_category" /\ resp[p].status = 200
        /\ \E i \in 1..Len(transactions) : transactions[i].category_id = req[p].id
        /\ \E i \in 1..Len(budgets) : budgets[i].category_id = req[p].id

\* the calendar day a stored Transaction is dated
DayOf(tx) == ToOrdinal(FromIsoFormat(tx.date))

RECURSIVE SumOver(_, _)
SumOver(indexes, txs) ==
    IF indexes = {} THEN 0
    ELSE LET i == CHOOSE k \in indexes : TRUE
         IN  txs[i].amount + SumOver(indexes \ {i}, txs)

\* the stored expense Transactions of a category dated within the window
SpentIndexes(txs, category_id, day, period) ==
    {i \in 1..Len(txs) :
        /\ txs[i].type = expense
        /\ txs[i].category_id = category_id
        /\ ToOrdinal(WindowStart(day, period)) <= DayOf(txs[i])
        /\ DayOf(txs[i]) <= ToOrdinal(WindowEnd(day, period))}

\* the rows of the overview answered in this step satisfy R
OverviewRows(p, R(_)) ==
    Responds(p, "get_budget_overview") =>
        /\ resp'[p].status = 200
        /\ \A k \in 1..Len(resp'[p].body) : R(resp'[p].body[k])

C5_Original ==
    [][\A p \in Procs :
          OverviewRows(p, LAMBDA row :
              row.percentage_used =
                  IF row.budget_amount # 0
                  THEN Quotient(row.spent_amount * 100, row.budget_amount)
                  ELSE Zero)]_vars

\* C5: every overview row's percentage_used is spent_amount / budget_amount
\* x 100 when budget_amount is greater than 0 and 0 when it is 0 or negative;
\* the call always answers 200.
C5_PercentageOfPositiveBudget ==
    [][\A p \in Procs :
          OverviewRows(p, LAMBDA row :
              row.percentage_used =
                  IF row.budget_amount > 0
                  THEN Quotient(row.spent_amount * 100, row.budget_amount)
                  ELSE Zero)]_vars

\* a row of a negative budget with spending shows 0 percent
C5_Witness ==
    \E p \in Procs :
        /\ Finished(p) /\ req[p].op = "get_budget_overview"
        /\ \E k \in 1..Len(resp[p].body) :
              /\ resp[p].body[k].budget_amount < 0
              /\ resp[p].body[k].spent_amount # 0
              /\ resp[p].body[k].percentage_used = Zero

\* C6: every overview row has remaining_amount = budget_amount - spent_amount
\* and is_over_budget exactly when spent_amount > budget_amount.
C6_RemainingAndOverBudget ==
    [][\A p \in Procs :
          OverviewRows(p, LAMBDA row :
              /\ row.remaining_amount = row.budget_amount - row.spent_amount
              /\ row.is_over_budget <=> (row.spent_amount > row.budget_amount))]_vars

\* a row whose spending equals its budget is not over budget
C6_Witness ==
    \E p \in Procs :
        /\ Finished(p) /\ req[p].op = "get_budget_overview"
        /\ \E k \in 1..Len(resp[p].body) :
              /\ resp[p].body[k].spent_amount = resp[p].body[k].budget_amount
              /\ resp[p].body[k].spent_amount # 0
              /\ ~resp[p].body[k].is_over_budget

PeriodIndexes(docs, period) == {i \in 1..Len(docs) : docs[i].period = period}

Nth(indexes, k) == CHOOSE i \in indexes : Cardinality({j \in indexes : j <= i}) = k

ColorNow(cats, category_id) ==
    IF \E i \in 1..Len(cats) : cats[i].id = category_id
    THEN (CHOOSE c \in {cats[i] : i \in 1..Len(cats)} : c.id = category_id).color
    ELSE "#3B82F6"

\* C7: the overview of a period answers 200 with one row for each stored
\* Budget of that period, in store order, and none for another period; the
\* row of a Budget whose Category is deleted carries the colour #3B82F6.
C7_OneRowPerBudgetOfPeriod ==
    [][\A p \in Procs :
          Responds(p, "get_budget_overview") =>
             LET rows == resp'[p].body
                 of   == PeriodIndexes(budgets', req'[p].period)
             IN  /\ resp'[p].status = 200
                 /\ Len(rows) = Cardinality(of)
                 /\ \A k \in 1..Len(rows) :
                       LET doc == budgets'[Nth(of, k)]
                       IN  /\ rows[k].category_id = doc.category_id
                           /\ rows[k].category_name = doc.category_name
                           /\ rows[k].period = req'[p].period
                           /\ rows[k].budget_amount = doc.amount
                           /\ rows[k].category_color =
                                 ColorNow(categories', doc.category_id)]_vars

\* of two Budgets of a deleted Category, the one of the period has its row
C7_Witness ==
    \E p \in Procs :
        /\ Finished(p) /\ req[p].op = "get_budget_overview"
        /\ Len(budgets) = 2 /\ Len(resp[p].body) = 1
        /\ categories = <<>>
        /\ resp[p].body[1].category_color = "#3B82F6"

\* the stored expense Transactions dated on or after the period's first day
AnalyticsIndexes(txs, day, period) ==
    {i \in 1..Len(txs) :
        /\ txs[i].type = expense
        /\ DayOf(txs[i]) >= ToOrdinal(WindowStart(day, period))}

LazyInit(p) ==
    /\ (Accepts(p, "get_settings") /\ settings = <<>>) => pc'[p] = "gs_insert"
    /\ (pc[p] = "gs_insert" /\ pc'[p] # pc[p]) =>
          /\ Responds(p, "get_settings")
          /\ Len(settings') = Len(settings) + 1
          /\ settings'[Len(settings')].app_name = DefaultAppName
          /\ resp'[p] = Ok(settings'[Len(settings')])

\* C11: in every reachable state the settings collection holds at most one
\* document, under any interleaving of get_settings and update_settings
\* requests, and a get_settings that finds no document inserts one with default
\* values and returns it.
C11_SettingsSingleton ==
    /\ [](Len(settings) <= 1)
    /\ [][\A p \in Procs : LazyInit(p)]_vars

\* C12: every Transaction stored by create_transaction has a positive amount:
\* in every reachable state no stored Transaction has an amount that is zero or
\* negative, whatever amount the request carried.
C12_StoredAmountPositive ==
    \A i \in 1..Len(transactions) : transactions[i].amount > 0

\* [start_date, end_date] is the whole calendar period of `period` around day
WholePeriod(day, period, start_date, end_date) ==
    /\ ToOrdinal(start_date) <= ToOrdinal(day)
    /\ ToOrdinal(day) <= ToOrdinal(end_date)
    /\ period = weekly =>
          /\ Weekday(start_date) = 0
          /\ ToOrdinal(end_date) = ToOrdinal(start_date) + 6
          /\ Weekday(end_date) = 6
    /\ period = monthly =>
          /\ start_date = Date(day.year, day.month, 1)
          /\ end_date = Date(day.year, day.month, DaysInMonth(day.year, day.month))
          /\ day.month = 12 => end_date = Date(day.year, 12, 31)
    /\ period = yearly =>
          /\ start_date = Date(day.year, 1, 1)
          /\ end_date = Date(day.year, 12, 31)

\* C13: for every value of today, the window [start_date, end_date] that
\* get_budget_overview resolves contains today and is the whole calendar period
\* around it: weekly a Monday and the Sunday 6 days later, monthly day 1 and the
\* last day of today's month (31 December of the same year in December), yearly
\* 1 January and 31 December of today's year.
C13_WindowIsWholePeriod ==
    [][\A p \in Procs :
          Responds(p, "resolve_window") =>
             WholePeriod(today', req'[p].period, resp'[p].body.start_date,
                         resp'[p].body.end_date)]_vars

\* a monthly window resolved in December, and a weekly window that starts in
\* one year and ends in the next
C13_Witness ==
    \E p \in Procs :
        /\ Finished(p) /\ req[p].op = "resolve_window"
        /\ \/ /\ req[p].period = monthly
              /\ today.month = 12
              /\ resp[p].body.end_date = Date(today.year, 12, 31)
           \/ /\ req[p].period = weekly
              /\ resp[p].body.start_date.year < resp[p].body.end_date.year

\* create_budget that found an existing Budget answers a Budget that is stored
\* when it answers and has the requested amount
ReturnsStoredUpdate(p) ==
    (Responds(p, "create_budget") /\ pc[p] = "cb_refetch") =>
       /\ resp'[p].status = 200
       /\ \E i \in 1..Len(budgets') : budgets'[i] = resp'[p].body
       /\ resp'[p].body.amount = req'[p].amount

\* C14: create_budget always completes with either a Budget or NotFound, under
\* any interleaving with concurrently handled delete_budget requests, and
\* whenever it found an existing Budget for the pair, the Budget it returns is
\* stored at the moment of return and has the requested amount.
C14_UpsertBudgetOrNotFound ==
    /\ [](\A p \in Procs : Finished(p) /\ req[p].op = "create_budget" =>
             resp[p].status \in {200, 404})
    /\ [][\A p \in Procs : ReturnsStoredUpdate(p)]_vars

====
